---- MODULE Spec2Model ----
(***************************************************************************)
(* AgriConnect backend: the group chat subsystem, and the address and     *)
(* order routes.                                                           *)
(*   - server.js (src/unnamed/part_000): the Socket.IO gateway, with the   *)
(*     joinGroup, sendMessage and disconnect handlers;                     *)
(*   - routes/groups.js (src/unnamed/part_002): the repository carries two *)
(*     versions of this router; the handlers of the first are suffixed 1,  *)
(*     those of the second 2;                                              *)
(*   - routes/addresses.js, routes/orders.js: the first router of each     *)
(*     file;                                                               *)
(*   - models/Message.js, models/FarmerGroup.js, models/Order.js,          *)
(*     models/User.js: the Mongoose schemas.                               *)
(* A handler is split where it awaits the database: the code between two   *)
(* awaits runs without interleaving (Node's single-threaded event loop).   *)
(* server.js loads models/Message.js without binding the model to a name,  *)
(* so its sendMessage handler stops at `new Message`: the steps after it   *)
(* (SaveResolved, SaveRejected, FindResolved, FindRejected) are modelled   *)
(* from the code and are part of no specification, as no run reaches them. *)
(***************************************************************************)
EXTENDS Integers, Sequences, FiniteSets, TLC

\* ------------------------------------------------------------------ bounds
\* sendMessage events and HTTP message posts handled in one run
MaxSends == 2
\* largest value of the server clock (Date.now())
MaxClock == 1
\* toggle-membership requests that overlap other requests in one run
MaxToggles == 3

\* ------------------------------------------------------------- the universe
Undefined == "undefined"
Null == "null"
\* JS undefined / null where a string of characters is expected
UndefinedText == <<"undefined">>
NullText == <<"null">>

Conns == {"c1", "c2"}
GroupIds == {"g1", "g2"}
Users == {"u1", "u2", "u3"}
\* the toggle-membership requests whose awaits other requests may overlap
Requests == 1..MaxToggles

\* the fields of a sendMessage payload
PayloadGroupIds == {"g1", Undefined}
PayloadSenderIds == {"u1", Undefined}
PayloadTypes == {"text", "image", "audio", "video", Undefined}
PayloadTexts == {UndefinedText, NullText, <<>>, <<" ">>, <<" ", "a", " ">>, <<"a">>}
PayloadFileUrls == {"f1", Undefined}
Payloads ==
    [groupId : PayloadGroupIds, senderId : PayloadSenderIds, messageType : PayloadTypes,
     messageText : PayloadTexts, fileUrl : PayloadFileUrls]
\* the payloads the gateway specification sends: a text and an image message, an
\* empty text, a payload without messageType
SentPayloads ==
    {[groupId |-> "g1", senderId |-> "u1", messageType |-> "text",
      messageText |-> <<" ", "a", " ">>, fileUrl |-> Undefined],
     [groupId |-> "g2", senderId |-> "u2", messageType |-> "image",
      messageText |-> <<"a">>, fileUrl |-> "f1"],
     [groupId |-> "g1", senderId |-> "u1", messageType |-> "text",
      messageText |-> <<" ">>, fileUrl |-> Undefined],
     [groupId |-> "g2", senderId |-> "u2", messageType |-> Undefined,
      messageText |-> UndefinedText, fileUrl |-> Undefined]}
\* the argument of a joinGroup event: a group id, or nothing
JoinPayloads == GroupIds \cup {Undefined}
\* the requests that post a message, change addresses, or create and delete orders
PostRequests == {"p1", "p2"}
AddressRequests == {"q1", "q2", "q3"}
\* order requests are numbered as they arrive
OrderRequests == 1..4
\* an id no address has, and one no order has
NoSuchAddress == 0
NoSuchOrder == 0
\* req.params.id of an address request and of an order request
AddressIds == NoSuchAddress..Cardinality(AddressRequests)
OrderIds == NoSuchOrder..Cardinality(OrderRequests)
\* req.body.isDefault: true, false or absent, and a truthy value that is not true
DefaultFlags == {"true", "false", "1"}
\* req.body.tx_ref, absent or given
TxRefs == {"t1", "t2"}
BodyTxRefs == TxRefs \cup {Undefined}
\* req.body.status
BodyStatuses == {Undefined, "shipped", "awaiting_payment"}
\* req.body.messageText of POST /:id/messages
BodyTexts == {UndefinedText, <<>>, <<" ">>, <<" ", "a">>, <<"a">>}

\* ---------------------------------------------------------------- JS values
\* !v
Falsy(v) == v \in {Undefined, Null, ""}

IsString(t) == t # UndefinedText /\ t # NullText

RECURSIVE TrimStart(_)
TrimStart(s) ==
    IF s = <<>> THEN s
    ELSE IF Head(s) = " " THEN TrimStart(Tail(s)) ELSE s

RECURSIVE TrimEnd(_)
TrimEnd(s) ==
    IF s = <<>> THEN s
    ELSE IF s[Len(s)] = " " THEN TrimEnd(SubSeq(s, 1, Len(s) - 1)) ELSE s

\* String.prototype.trim
Trim(s) == TrimEnd(TrimStart(s))

\* ------------------------------------------------------------------- state
VARIABLES
    status,     \* connection -> "new" | "open" | "closed"
    rooms,      \* connection -> the rooms the socket has joined
    pc,         \* connection -> where its sendMessage handler stands
    doc,        \* connection -> the Message document of its handler
    inbox,      \* connection -> the events the client has received
    messages,   \* the messages collection, in insertion order
    nextId,     \* the next _id a new Message gets
    now,        \* the server clock
    sends,      \* sendMessage events and message posts handled so far
    broadcasts, \* io.to(groupId).emit('newMessage', ...) calls made so far
    groups,     \* the farmergroups collection: group id -> document
    last,       \* the last HTTP exchange: the request, the members of its group
                \* before it, and the response
    prev,       \* the HTTP exchange before the last
    accounts,   \* the users collection: the ids of the users that exist
    toggles,    \* toggle-membership request -> where its handler stands
    posts,      \* message post -> the document whose save() is pending
    addresses,  \* the addresses collection: a set of documents
    nextAddr,   \* the next _id a new Address gets
    userDocs,   \* user -> the addresses array and the version key of the User document
    addrReqs,   \* address request -> where its handler stands
    orders,     \* the orders collection: a set of documents
    nextOrder,  \* the next _id a new Order gets
    orderReqs,  \* order request -> where its handler stands
    strictQuery \* whether the installed mongoose strips unknown paths from a filter

addressVars == <<addresses, nextAddr, userDocs, addrReqs>>
orderVars == <<orders, nextOrder, orderReqs, strictQuery>>
shopVars == <<addresses, nextAddr, userDocs, addrReqs, orders, nextOrder, orderReqs,
              strictQuery>>

vars ==
    <<status, rooms, pc, doc, inbox, messages, nextId, now, sends, broadcasts, groups,
      last, prev, accounts, toggles, posts, addresses, nextAddr, userDocs, addrReqs,
      orders, nextOrder, orderReqs, strictQuery>>

chatVars == <<status, rooms, pc, doc, inbox, broadcasts>>
storeVars == <<messages, nextId, now, sends>>
httpVars == <<last, prev>>
groupChatVars == <<chatVars, storeVars, groups, httpVars, accounts, toggles, posts>>

NoDoc ==
    [_id |-> 0, groupId |-> Undefined, senderId |-> Undefined, messageType |-> Undefined,
     messageText |-> UndefinedText, fileUrl |-> Undefined, sentAt |-> 0]
NoGroup == [exists |-> FALSE, createdBy |-> Undefined, members |-> <<>>]
NoExchange == [op |-> "none", g |-> Undefined, u |-> Undefined, before |-> <<>>,
               status |-> 0, body |-> <<>>]
Exchange(op, g, u, before, code, body) ==
    [op |-> op, g |-> g, u |-> u, before |-> before, status |-> code, body |-> body]
\* res.status(code).json(body)
Respond(op, g, u, before, code, body) ==
    /\ last' = Exchange(op, g, u, before, code, body)
    /\ prev' = last

\* the addresses array and the version key (__v) of a new User document
NoAddresses == [addresses |-> <<>>, v |-> 0]
\* an address request: "none" before it arrives, "done" after its response; user is
\* the User document its handler read
NoAddressRequest ==
    [state |-> "none", op |-> "none", u |-> Undefined, id |-> 0, isDefault |-> "false",
     user |-> NoAddresses, code |-> 0]
\* an order request: "none" before it arrives, "done" after its response; id is the
\* order of the request or of the response
NoOrderRequest ==
    [state |-> "none", op |-> "none", u |-> Undefined, id |-> 0, tx_ref |-> Undefined,
     status |-> Undefined, code |-> 0]

\* a toggle-membership handler that reaches group.save(): "none" before the
\* request, "saving" while group.save() is pending with the change made to the
\* document that was read, "done" after the response
NoToggle == [state |-> "none", g |-> Undefined, u |-> Undefined, isMember |-> FALSE]

\* where a sendMessage handler stands: "idle" before its first event, "saving"
\* while newMessageDocument.save() is pending, "finding" while the findById that
\* populates the sender is pending, "idle" again when it has returned
InFlight == {"saving", "finding"}

\* the messageError texts of the sendMessage handler
ErrGroupMissing == "Internal server error: Group ID missing."
ErrSenderMissing == "Internal server error: Sender ID missing."
ErrEmptyText == "Cannot send an empty text message."
ErrImageUrl == "Image URL missing."
ErrAudioUrl == "Audio URL missing."
ErrInvalidData == "Invalid message data. "
ErrServer == "Server error: Could not send your message."
ErrNotPrepared == "Server error: Message details could not be prepared after saving."

MessageError(e) == [event |-> "messageError", id |-> 0, data |-> [error |-> e]]

\* ------------------------------------------------------------ Message model
MessageTypeEnum == {"text", "image", "audio"}

\* new Message({...}): the schema's default for messageType and the trim setter of
\* messageText are applied as the document is built
NewMessage(id, groupId, senderId, messageText, fileUrl, messageType) ==
    [_id |-> id, groupId |-> groupId, senderId |-> senderId,
     messageType |-> IF messageType = Undefined THEN "text" ELSE messageType,
     messageText |-> IF IsString(messageText) THEN Trim(messageText) ELSE messageText,
     fileUrl |-> fileUrl, sentAt |-> 0]

\* the schema validation save() runs first: the required paths and the enum
SchemaValid(d) ==
    /\ d.groupId \notin {Undefined, Null}
    /\ d.senderId \notin {Undefined, Null}
    /\ d.messageType \in MessageTypeEnum

\* timestamps: { createdAt: 'sentAt' }: save() stamps the new document
Stamp(d, t) == [d EXCEPT !.sentAt = t]

\* the User fields populate('senderId', 'fullName avatarUrl _id') selects; the
\* path is null when no user has the id
FullName(u) == <<"name", u>>
AvatarUrl(u) == <<"avatar", u>>
Profile(u) ==
    IF u \in accounts THEN [_id |-> u, fullName |-> FullName(u), avatarUrl |-> AvatarUrl(u)]
    ELSE [_id |-> Null, fullName |-> <<>>, avatarUrl |-> <<>>]

\* .populate('senderId', ...): senderId becomes the sender's public profile
Populate(m) ==
    [_id |-> m._id, groupId |-> m.groupId, sender |-> Profile(m.senderId),
     messageType |-> m.messageType, messageText |-> m.messageText,
     fileUrl |-> m.fileUrl, sentAt |-> m.sentAt]

NewMessageEvent(m) == [event |-> "newMessage", id |-> m._id, data |-> m]

\* Message.findById(id): the stored documents with that _id
FindById(id) == SelectSeq(messages, LAMBDA m : m._id = id)

\* ---------------------------------------------------------------- gateway
\* io.on('connection')
Connect(c) ==
    /\ status[c] = "new"
    /\ status' = [status EXCEPT ![c] = "open"]
    /\ UNCHANGED <<rooms, pc, doc, inbox, broadcasts, storeVars, groups, httpVars, accounts, toggles, posts, shopVars>>

\* a join that enrols every open socket (io.socketsJoin)
JoinGroupEveryone(c, groupId) ==
    /\ status[c] = "open"
    /\ rooms' = [s \in Conns |-> IF status[s] = "open" THEN rooms[s] \cup {groupId}
                                  ELSE rooms[s]]
    /\ UNCHANGED <<status, pc, doc, inbox, broadcasts, storeVars, groups, httpVars,
                   accounts, toggles, posts, shopVars>>

\* socket.on('joinGroup'): socket.join(groupId), whatever the argument is
JoinGroup(c, groupId) ==
    /\ status[c] = "open"
    /\ rooms' = [rooms EXCEPT ![c] = @ \cup {groupId}]
    /\ UNCHANGED <<status, pc, doc, inbox, broadcasts, storeVars, groups, httpVars, accounts, toggles, posts, shopVars>>

\* a disconnect that leaves the socket in its rooms
DisconnectKeepsRooms(c) ==
    /\ status[c] = "open"
    /\ status' = [status EXCEPT ![c] = "closed"]
    /\ UNCHANGED <<rooms, pc, doc, inbox, broadcasts, storeVars, groups, httpVars,
                   accounts, toggles, posts, shopVars>>

\* socket.on('disconnect'): Socket.IO has taken the socket out of its rooms
Disconnect(c) ==
    /\ status[c] = "open"
    /\ status' = [status EXCEPT ![c] = "closed"]
    /\ rooms' = [rooms EXCEPT ![c] = {}]
    /\ UNCHANGED <<pc, doc, inbox, broadcasts, storeVars, groups, httpVars, accounts, toggles, posts, shopVars>>

\* io.emit(...) in place of socket.emit(...): every open socket gets the event
EmitEveryone(c, ev) ==
    [s \in Conns |-> IF status[s] = "open" THEN Append(inbox[s], ev) ELSE inbox[s]]

\* socket.emit(...): a closed socket's packets are dropped
EmitTo(c, ev) == [inbox EXCEPT ![c] = IF status[c] = "open" THEN Append(@, ev) ELSE @]

\* io.to(groupId): the open sockets that joined the room
Recipients(groupId) == {s \in Conns : status[s] = "open" /\ groupId \in rooms[s]}

\* io.to(groupId).emit(...)
EmitToRoom(groupId, ev) ==
    [s \in Conns |-> IF s \in Recipients(groupId) THEN Append(inbox[s], ev) ELSE inbox[s]]

\* the "Basic Validations" of sendMessage: the messageError they end with, "" when
\* the payload passes, "throw" when messageText.trim() throws a TypeError
BasicValidation(p) ==
    IF Falsy(p.groupId) THEN ErrGroupMissing
    ELSE IF Falsy(p.senderId) THEN ErrSenderMissing
    ELSE IF p.messageType = "text" /\ p.messageText # UndefinedText
                                  /\ ~IsString(p.messageText) THEN "throw"
    ELSE IF p.messageType = "text"
            /\ (p.messageText = UndefinedText \/ Trim(p.messageText) = <<>>) THEN ErrEmptyText
    ELSE IF p.messageType = "image" /\ Falsy(p.fileUrl) THEN ErrImageUrl
    ELSE IF p.messageType = "audio" /\ Falsy(p.fileUrl) THEN ErrAudioUrl
    ELSE ""

\* new Message({...}) of sendMessage
SocketDocument(id, p) ==
    NewMessage(id, p.groupId, p.senderId,
               IF p.messageType = "text" THEN Trim(p.messageText) ELSE NullText,
               IF p.messageType \in {"image", "audio"} THEN p.fileUrl ELSE Null,
               p.messageType)

\* server.js calls require('./models/Message') inside a try block and drops what
\* it returns: no declaration of the identifier Message exists in the module, so
\* evaluating `new Message` throws a ReferenceError
MessageDeclared == FALSE

\* a handler that swallows what it catches: nothing is emitted
SendMessageSilent(c, p) ==
    /\ status[c] = "open"
    /\ pc[c] = "idle"
    /\ sends < MaxSends
    /\ sends' = sends + 1
    /\ UNCHANGED <<status, rooms, pc, doc, inbox, broadcasts, messages, nextId, now,
                   groups, httpVars, accounts, toggles, posts, shopVars>>

\* socket.on('sendMessage'), up to the await of save(): the validations, the
\* document, and the schema validation and time stamp save() starts with. The
\* ReferenceError of `new Message` is thrown inside the try block and reported by
\* the catch block as a server error. A connection has one handler in flight at
\* a time; two connections overlap.
SendMessage(c, p) ==
    /\ status[c] = "open"
    /\ pc[c] = "idle"
    /\ sends < MaxSends
    /\ sends' = sends + 1
    /\ LET v == BasicValidation(p)
           d == SocketDocument(nextId, p)
       IN  IF v = "throw"
           THEN /\ inbox' = EmitTo(c, MessageError(ErrServer))
                /\ UNCHANGED <<pc, doc, nextId>>
           ELSE IF v # ""
           THEN /\ inbox' = EmitTo(c, MessageError(v))
                /\ UNCHANGED <<pc, doc, nextId>>
           ELSE IF ~MessageDeclared
           THEN /\ inbox' = EmitTo(c, MessageError(ErrServer))
                /\ UNCHANGED <<pc, doc, nextId>>
           ELSE IF ~SchemaValid(d)
           THEN /\ inbox' = EmitTo(c, MessageError(ErrInvalidData))
                /\ nextId' = nextId + 1
                /\ UNCHANGED <<pc, doc>>
           ELSE /\ pc' = [pc EXCEPT ![c] = "saving"]
                /\ doc' = [doc EXCEPT ![c] = Stamp(d, now)]
                /\ nextId' = nextId + 1
                /\ UNCHANGED inbox
    /\ UNCHANGED <<status, rooms, broadcasts, messages, now, groups, httpVars, accounts, toggles, posts, shopVars>>

\* the TypeError of the destructuring thrown outside a promise: the
\* uncaughtException handler runs process.exit(1) and every socket is gone
SendMessageNullFatal(c) ==
    /\ status[c] = "open"
    /\ pc[c] = "idle"
    /\ sends < MaxSends
    /\ sends' = sends + 1
    /\ status' = [s \in Conns |-> IF status[s] = "open" THEN "closed" ELSE status[s]]
    /\ rooms' = [s \in Conns |-> {}]
    /\ pc' = [s \in Conns |-> "idle"]
    /\ doc' = [s \in Conns |-> NoDoc]
    /\ UNCHANGED <<inbox, broadcasts, messages, nextId, now, groups, httpVars,
                   accounts, toggles, posts, shopVars>>

\* socket.on('sendMessage') with a payload that is null or undefined: the
\* destructuring at the top of the try block throws a TypeError, which the catch
\* block reports; the handler is an async function, so nothing it throws leaves it
\* as an exception
SendMessageNull(c) ==
    /\ status[c] = "open"
    /\ pc[c] = "idle"
    /\ sends < MaxSends
    /\ sends' = sends + 1
    /\ inbox' = EmitTo(c, MessageError(ErrServer))
    /\ UNCHANGED <<status, rooms, pc, doc, broadcasts, messages, nextId, now, groups,
                   httpVars, accounts, toggles, posts, shopVars>>

\* save() resolves: the document is in the collection and findById is called
SaveResolved(c) ==
    /\ pc[c] = "saving"
    /\ messages' = Append(messages, doc[c])
    /\ pc' = [pc EXCEPT ![c] = "finding"]
    /\ UNCHANGED <<status, rooms, doc, inbox, broadcasts, nextId, now, sends, groups, httpVars, accounts, toggles, posts, shopVars>>

\* save() rejects (the database is not reachable): the catch block
SaveRejected(c) ==
    /\ pc[c] = "saving"
    /\ inbox' = EmitTo(c, MessageError(ErrServer))
    /\ pc' = [pc EXCEPT ![c] = "idle"]
    /\ doc' = [doc EXCEPT ![c] = NoDoc]
    /\ UNCHANGED <<status, rooms, broadcasts, storeVars, groups, httpVars, accounts, toggles, posts, shopVars>>

\* findById(...).populate(...).lean() resolves: the broadcast, or the messageError
\* when the document is not found
FindResolved(c) ==
    /\ pc[c] = "finding"
    /\ LET found == FindById(doc[c]._id)
       IN  IF found = <<>>
           THEN /\ inbox' = EmitTo(c, MessageError(ErrNotPrepared))
                /\ UNCHANGED broadcasts
           ELSE /\ inbox' = EmitToRoom(doc[c].groupId, NewMessageEvent(Populate(found[1])))
                /\ broadcasts' = broadcasts + 1
    /\ pc' = [pc EXCEPT ![c] = "idle"]
    /\ doc' = [doc EXCEPT ![c] = NoDoc]
    /\ UNCHANGED <<status, rooms, storeVars, groups, httpVars, accounts, toggles, posts, shopVars>>

\* findById rejects: the catch block
FindRejected(c) ==
    /\ pc[c] = "finding"
    /\ inbox' = EmitTo(c, MessageError(ErrServer))
    /\ pc' = [pc EXCEPT ![c] = "idle"]
    /\ doc' = [doc EXCEPT ![c] = NoDoc]
    /\ UNCHANGED <<status, rooms, broadcasts, storeVars, groups, httpVars, accounts, toggles, posts, shopVars>>

\* Date.now() advances
Tick ==
    /\ now < MaxClock
    /\ now' = now + 1
    /\ UNCHANGED <<chatVars, messages, nextId, sends, groups, httpVars, accounts, toggles, posts, shopVars>>

\* ------------------------------------------------- routes/groups.js, messages
\* the post followed by io.to(id).emit('newMessage', ...)
PostMessage1Broadcast(g, u, text) ==
    /\ sends < MaxSends
    /\ sends' = sends + 1
    /\ nextId' = nextId + 1
    /\ LET d == Stamp(NewMessage(nextId, g, u, text, Undefined, "text"), now)
       IN  /\ messages' = Append(messages, d)
           /\ inbox' = EmitToRoom(g, NewMessageEvent(Populate(d)))
           /\ broadcasts' = broadcasts + 1
           /\ Respond("postMessage", g, u, <<>>, 201, <<Populate(d)>>)
    /\ UNCHANGED <<status, rooms, pc, doc, now, groups, accounts, toggles, posts, shopVars>>

\* a post that writes its document over the last one stored
PostMessage1Overwrite(g, u, text) ==
    /\ sends < MaxSends
    /\ sends' = sends + 1
    /\ nextId' = nextId + 1
    /\ LET d == Stamp(NewMessage(nextId, g, u, text, Undefined, "text"), now)
       IN  /\ messages' = IF messages = <<>> THEN <<d>>
                           ELSE [messages EXCEPT ![Len(messages)] = d]
           /\ Respond("postMessage", g, u, <<>>, 201, <<Populate(d)>>)
    /\ UNCHANGED <<chatVars, now, groups, accounts, toggles, posts, shopVars>>

\* router.post('/:id/messages') of the first version: a text message from the
\* request body; the response is the populated document, or 500 when save()
\* rejects. The request is taken to run without another one between its awaits.
PostMessage1(g, u, text) ==
    /\ sends < MaxSends
    /\ sends' = sends + 1
    /\ nextId' = nextId + 1
    /\ LET d == NewMessage(nextId, g, u, text, Undefined, "text")
       IN  \/ /\ SchemaValid(d)
              /\ messages' = Append(messages, Stamp(d, now))
              /\ Respond("postMessage", g, u, <<>>, 201, <<Populate(Stamp(d, now))>>)
           \/ /\ messages' = messages
              /\ Respond("postMessage", g, u, <<>>, 500, <<[text |-> "Server Error"]>>)
    /\ UNCHANGED <<chatVars, now, groups, accounts, toggles, posts, shopVars>>

\* router.post('/:id/messages') from the request to the insert save() sends: the
\* document is built and validated, and stamped by the server that handles the
\* request
PostStart1(r, g, u, text) ==
    /\ posts[r] = NoDoc
    /\ sends < MaxSends
    /\ sends' = sends + 1
    /\ nextId' = nextId + 1
    /\ LET d == NewMessage(nextId, g, u, text, Undefined, "text")
       IN  IF SchemaValid(d)
           THEN /\ posts' = [posts EXCEPT ![r] = Stamp(d, now)]
                /\ UNCHANGED <<last, prev>>
           ELSE /\ Respond("postMessage", g, u, <<>>, 500, <<[text |-> "Server Error"]>>)
                /\ UNCHANGED posts
    /\ UNCHANGED <<chatVars, messages, now, groups, accounts, toggles, shopVars>>

\* save() resolves: the document is in the collection, and the response is the
\* populated document
PostSave1(r) ==
    /\ posts[r] # NoDoc
    /\ messages' = Append(messages, posts[r])
    /\ Respond("postMessage", posts[r].groupId, posts[r].senderId, <<>>, 201,
               <<Populate(posts[r])>>)
    /\ posts' = [posts EXCEPT ![r] = NoDoc]
    /\ UNCHANGED <<chatVars, nextId, now, sends, groups, accounts, toggles, shopVars>>

\* .sort({ sentAt: 'asc' }): a stable sort, documents with equal sentAt stay in
\* the order the collection scan returns them, which is insertion order
RECURSIVE InsertBySentAt(_, _)
InsertBySentAt(sorted, m) ==
    IF sorted = <<>> THEN <<m>>
    ELSE IF sorted[Len(sorted)].sentAt <= m.sentAt THEN Append(sorted, m)
    ELSE Append(InsertBySentAt(SubSeq(sorted, 1, Len(sorted) - 1), m), sorted[Len(sorted)])

RECURSIVE SortBySentAt(_)
SortBySentAt(ms) ==
    IF ms = <<>> THEN <<>>
    ELSE InsertBySentAt(SortBySentAt(SubSeq(ms, 1, Len(ms) - 1)), ms[Len(ms)])

\* Message.find({ groupId })
FindByGroup(g) == SelectSeq(messages, LAMBDA m : m.groupId = g)

\* the query without .sort(): the documents in collection order
HistoryUnsorted(g) ==
    LET found == FindByGroup(g)
    IN  [i \in 1..Len(found) |-> Populate(found[i])]

\* Message.find({ groupId }).populate('senderId', ...).sort({ sentAt: 'asc' })
History(g) ==
    LET sorted == SortBySentAt(FindByGroup(g))
    IN  [i \in 1..Len(sorted) |-> Populate(sorted[i])]

\* a comparison that never matches (an ObjectId compared to a string with ===)
IsMemberNever(group, u) == FALSE

\* group.members.some(memberId => memberId equals the user's id)
IsMember(group, u) == \E i \in DOMAIN group.members : group.members[i] = u

\* router.get('/:id/messages') of the first version: 403 unless the group exists
\* and the user is a member
GetMessages1(g, u) ==
    /\ IF ~groups[g].exists \/ ~IsMember(groups[g], u)
       THEN Respond("getMessages", g, u, groups[g].members, 403,
                    <<[msg |-> "Access denied. You are not a member of this group."]>>)
       ELSE Respond("getMessages", g, u, groups[g].members, 200, History(g))
    /\ UNCHANGED <<chatVars, storeVars, groups, accounts, toggles, posts, shopVars>>

\* router.get('/:id/messages') of the second version: 404 without the group, 403
\* for a user who is not a member
GetMessages2(g, u) ==
    /\ IF ~groups[g].exists
       THEN Respond("getMessages", g, u, groups[g].members, 404, <<[msg |-> "Group not found"]>>)
       ELSE IF ~IsMember(groups[g], u)
       THEN Respond("getMessages", g, u, groups[g].members, 403,
                    <<[msg |-> "Access denied. You are not a member of this group."]>>)
       ELSE Respond("getMessages", g, u, groups[g].members, 200, History(g))
    /\ UNCHANGED <<chatVars, storeVars, groups, accounts, toggles, posts, shopVars>>

\* ----------------------------------------------- routes/groups.js, membership
\* The requests below are taken to run one at a time, with the database
\* answering: findById and save of one request with no other request between.
\* req.user.role === 'farmer'
Farmers == {"u1", "u2"}

\* router.post('/'): a farmer creates a group and is its first member (the name,
\* description and type of the request are taken to be valid and the name new)
CreateGroup(g, u) ==
    /\ ~groups[g].exists
    /\ IF u \notin Farmers
       THEN /\ Respond("createGroup", g, u, <<>>, 403, <<[error |-> "Access denied."]>>)
            /\ UNCHANGED groups
       ELSE /\ groups' = [groups EXCEPT ![g] = [exists |-> TRUE, createdBy |-> u, members |-> <<u>>]]
            /\ Respond("createGroup", g, u, <<>>, 201,
                                <<[_id |-> g, createdBy |-> Profile(u), members |-> <<Profile(u)>>]>>)
    /\ UNCHANGED <<chatVars, storeVars, accounts, toggles, posts, shopVars>>

\* group.members.pop() in place of pull(userId): the last member is removed
PullLast(members, u) == SubSeq(members, 1, Len(members) - 1)

\* group.members.pull(userId): every occurrence is removed
Pull(members, u) == SelectSeq(members, LAMBDA m : m # u)
\* group.members.push(userId)
Push(members, u) == Append(members, u)

\* router.post('/:id/toggle-membership') of the first version: a missing group
\* makes group.members throw, which the catch block answers with 500
ToggleMembership1(g, u) ==
    /\ IF ~groups[g].exists
       THEN /\ Respond("toggle", g, u, groups[g].members, 500, <<[text |-> "Server Error"]>>)
            /\ UNCHANGED groups
       ELSE LET isMember == IsMember(groups[g], u)
            IN  /\ groups' = [groups EXCEPT ![g].members =
                                 IF isMember THEN Pull(@, u) ELSE Push(@, u)]
                /\ Respond("toggle", g, u, groups[g].members, 200,
                                    <<[isMember |-> ~isMember]>>)
    /\ UNCHANGED <<chatVars, storeVars, accounts, toggles, posts, shopVars>>

\* what the second version does with a member's request: the creator is refused
CreatorGuard(group, u) == group.createdBy = u

\* router.post('/:id/toggle-membership') of the second version
ToggleMembership2(g, u) ==
    /\ IF ~groups[g].exists
       THEN /\ Respond("toggle", g, u, groups[g].members, 404, <<[msg |-> "Group not found"]>>)
            /\ UNCHANGED groups
       ELSE LET isMember == IsMember(groups[g], u)
            IN  IF isMember /\ CreatorGuard(groups[g], u)
                THEN /\ Respond("toggle", g, u, groups[g].members, 400,
                                         <<[error |-> "The creator cannot leave the group."]>>)
                     /\ UNCHANGED groups
                ELSE /\ groups' = [groups EXCEPT ![g].members =
                                      IF isMember THEN Pull(@, u) ELSE Push(@, u)]
                     /\ Respond("toggle", g, u, groups[g].members, 200,
                                         <<[isMember |-> ~isMember]>>)
    /\ UNCHANGED <<chatVars, storeVars, accounts, toggles, posts, shopVars>>

\* router.post('/:id/toggle-membership') of the second version, from the request
\* to the call of group.save(): the group as findById returns it, the guard of the
\* creator, and pull or push on the document in memory
ToggleFind2(r, g, u) ==
    /\ toggles[r].state = "none"
    /\ IF ~groups[g].exists
       THEN /\ Respond("toggle", g, u, groups[g].members, 404, <<[msg |-> "Group not found"]>>)
            /\ UNCHANGED toggles
       ELSE LET isMember == IsMember(groups[g], u)
            IN  IF isMember /\ CreatorGuard(groups[g], u)
                THEN /\ Respond("toggle", g, u, groups[g].members, 400,
                                         <<[error |-> "The creator cannot leave the group."]>>)
                     /\ UNCHANGED toggles
                ELSE /\ toggles' = [toggles EXCEPT ![r] = [state |-> "saving", g |-> g, u |-> u,
                                                           isMember |-> isMember]]
                     /\ UNCHANGED <<last, prev>>
    /\ UNCHANGED <<chatVars, storeVars, groups, accounts, posts, shopVars>>

\* group.save() resolves and the response is sent. save() writes the change that
\* was made to the array, not the array: $pullAll of the user after pull(),
\* $push of the user after push(), applied to the stored document as it is then
ToggleSave2(r) ==
    /\ toggles[r].state = "saving"
    /\ LET g == toggles[r].g
           u == toggles[r].u
       IN  /\ groups' = [groups EXCEPT ![g].members =
                            IF toggles[r].isMember THEN Pull(@, u) ELSE Push(@, u)]
           /\ Respond("toggle", g, u, groups[g].members, 200,
                               <<[isMember |-> ~toggles[r].isMember]>>)
    /\ toggles' = [toggles EXCEPT ![r].state = "done"]
    /\ UNCHANGED <<chatVars, storeVars, accounts, posts, shopVars>>

\* router.delete('/admin/:id') of routes/users.js: User.findByIdAndDelete
DeleteUser(u) ==
    /\ IF u \in accounts
       THEN Respond("deleteUser", Undefined, u, <<>>, 200, <<[msg |-> "User removed"]>>)
       ELSE Respond("deleteUser", Undefined, u, <<>>, 404,
                    <<[msg |-> "User not found for deletion"]>>)
    /\ accounts' = accounts \ {u}
    /\ UNCHANGED <<chatVars, storeVars, groups, toggles, posts, shopVars>>

\* ------------------------------------------------------ routes/addresses.js
\* if (isDefault)
Truthy(flag) == flag \in {"true", "1"}
\* isDefault === true
IsTrue(flag) == flag = "true"

\* res.status(code) of an address request, which is over
AddressDone(r, op, u, id, code) ==
    [addrReqs EXCEPT ![r] = [NoAddressRequest EXCEPT !.state = "done", !.op = op, !.u = u,
                                                    !.id = id, !.code = code]]

\* Address.updateMany({ userId, isDefault: true }, { $set: { isDefault: false } })
UnsetDefaults(u) ==
    {IF a.userId = u /\ a.isDefault THEN [a EXCEPT !.isDefault = FALSE] ELSE a :
        a \in addresses}

\* Address.updateMany({ userId, _id: { $ne: id }, isDefault: true },
\*                    { $set: { isDefault: false } })
UnsetOtherDefaults(u, id) ==
    {IF a.userId = u /\ a._id # id /\ a.isDefault THEN [a EXCEPT !.isDefault = FALSE]
     ELSE a : a \in addresses}

\* the filter { _id: req.params.id, userId: req.user.id }
OwnAddress(u, id) == {a \in addresses : a._id = id /\ a.userId = u}

\* router.post('/') up to the first write: User.findById, 404 without the user
PostAddressStart(r, u, flag) ==
    /\ addrReqs[r].state = "none"
    /\ addrReqs' =
            IF u \notin accounts THEN AddressDone(r, "post", u, NoSuchAddress, 404)
            ELSE [addrReqs EXCEPT ![r] =
                    [NoAddressRequest EXCEPT
                        !.state = IF Truthy(flag) THEN "unsetting" ELSE "inserting",
                        !.op = "post", !.u = u, !.isDefault = flag]]
    /\ UNCHANGED <<addresses, nextAddr, userDocs, orderVars, groupChatVars>>

\* the updateMany of a post whose address is the default
PostAddressUnset(r) ==
    /\ addrReqs[r].state = "unsetting"
    /\ addresses' = UnsetDefaults(addrReqs[r].u)
    /\ addrReqs' = [addrReqs EXCEPT ![r].state = "inserting"]
    /\ UNCHANGED <<nextAddr, userDocs, orderVars, groupChatVars>>

\* newAddress.save()
PostAddressSave(r) ==
    /\ addrReqs[r].state = "inserting"
    /\ addresses' = addresses \cup {[_id |-> nextAddr, userId |-> addrReqs[r].u,
                                     isDefault |-> IsTrue(addrReqs[r].isDefault)]}
    /\ nextAddr' = nextAddr + 1
    /\ addrReqs' = [addrReqs EXCEPT ![r].state = "pushing", ![r].id = nextAddr]
    /\ UNCHANGED <<userDocs, orderVars, groupChatVars>>

\* user.addresses.push(address._id) and user.save(), which sends $push and
\* increments the version key, and the response
PostAddressPush(r) ==
    /\ addrReqs[r].state = "pushing"
    /\ userDocs' = [userDocs EXCEPT ![addrReqs[r].u] =
                        [addresses |-> Append(@.addresses, addrReqs[r].id), v |-> @.v + 1]]
    /\ addrReqs' = [addrReqs EXCEPT ![r].state = "done", ![r].code = 201]
    /\ UNCHANGED <<addresses, nextAddr, orderVars, groupChatVars>>

\* router.put('/:id'): Address.findOneAndUpdate of the user's address, 404 when
\* there is none. The id of the request is one the client can have been given: that
\* of an address that was created, or NoSuchAddress
PutAddressUpdate(r, u, id, flag) ==
    /\ addrReqs[r].state = "none"
    /\ id < nextAddr
    /\ IF OwnAddress(u, id) = {}
       THEN /\ addrReqs' = AddressDone(r, "put", u, id, 404)
            /\ UNCHANGED addresses
       ELSE /\ addresses' = {IF a \in OwnAddress(u, id)
                             THEN [a EXCEPT !.isDefault = IsTrue(flag)] ELSE a :
                                a \in addresses}
            /\ addrReqs' =
                    IF IsTrue(flag)
                    THEN [addrReqs EXCEPT ![r] =
                            [NoAddressRequest EXCEPT !.state = "unsettingOthers",
                                                     !.op = "put", !.u = u, !.id = id,
                                                     !.isDefault = flag]]
                    ELSE AddressDone(r, "put", u, id, 200)
    /\ UNCHANGED <<nextAddr, userDocs, orderVars, groupChatVars>>

\* the updateMany of a put that made its address the default, and the response
PutAddressUnset(r) ==
    /\ addrReqs[r].state = "unsettingOthers"
    /\ addresses' = UnsetOtherDefaults(addrReqs[r].u, addrReqs[r].id)
    /\ addrReqs' = [addrReqs EXCEPT ![r].state = "done", ![r].code = 200]
    /\ UNCHANGED <<nextAddr, userDocs, orderVars, groupChatVars>>

\* router.delete('/:id'): Address.findOneAndDelete of the user's address, 404 when
\* there is none. The id is one the client can have been given
DeleteAddressFind(r, u, id) ==
    /\ addrReqs[r].state = "none"
    /\ id < nextAddr
    /\ IF OwnAddress(u, id) = {}
       THEN /\ addrReqs' = AddressDone(r, "delete", u, id, 404)
            /\ UNCHANGED addresses
       ELSE /\ addresses' = addresses \ OwnAddress(u, id)
            /\ addrReqs' = [addrReqs EXCEPT ![r] =
                                [NoAddressRequest EXCEPT !.state = "reading", !.op = "delete",
                                                         !.u = u, !.id = id]]
    /\ UNCHANGED <<nextAddr, userDocs, orderVars, groupChatVars>>

\* User.findById(req.user.id): the document as it is stored now
DeleteAddressRead(r) ==
    /\ addrReqs[r].state = "reading"
    /\ addrReqs' =
            IF addrReqs[r].u \notin accounts
            THEN [addrReqs EXCEPT ![r].state = "done", ![r].code = 200]
            ELSE [addrReqs EXCEPT ![r].state = "writing", ![r].user = userDocs[addrReqs[r].u]]
    /\ UNCHANGED <<addresses, nextAddr, userDocs, orderVars, groupChatVars>>

\* user.addresses = user.addresses.filter(...) and user.save(): an array that was
\* assigned is written whole with $set, under the condition that the version key
\* is the one that was read; when it is not, save() throws a VersionError, which
\* handleMongooseError answers with 500. An array the filter left as it was is
\* not written.
DeleteAddressWrite(r) ==
    /\ addrReqs[r].state = "writing"
    /\ LET u == addrReqs[r].u
           read == addrReqs[r].user
           kept == SelectSeq(read.addresses, LAMBDA x : x # addrReqs[r].id)
       IN  IF kept = read.addresses
           THEN /\ UNCHANGED userDocs
                /\ addrReqs' = [addrReqs EXCEPT ![r].state = "done", ![r].code = 200]
           ELSE IF userDocs[u].v = read.v
           THEN /\ userDocs' = [userDocs EXCEPT ![u] = [addresses |-> kept, v |-> read.v + 1]]
                /\ addrReqs' = [addrReqs EXCEPT ![r].state = "done", ![r].code = 200]
           ELSE /\ UNCHANGED userDocs
                /\ addrReqs' = [addrReqs EXCEPT ![r].state = "done", ![r].code = 500]
    /\ UNCHANGED <<addresses, nextAddr, orderVars, groupChatVars>>

\* --------------------------------------------------------- routes/orders.js
\* the enum of status in OrderSchema
OrderStatusEnum == {"pending", "processing", "shipped", "delivered", "cancelled"}
\* status: { $in: ['pending', 'awaiting_payment'] }
DeletableStatuses == {"pending", "awaiting_payment"}

\* request r arrives: the requests before it have
OrderArrives(r) ==
    /\ orderReqs[r].state = "none"
    /\ \A q \in OrderRequests : q < r => orderReqs[q].state # "none"

\* res.status(code) of an order request, which is over
OrderDone(r, op, u, id, tx, code) ==
    [orderReqs EXCEPT ![r] = [NoOrderRequest EXCEPT !.state = "done", !.op = op, !.u = u,
                                                   !.id = id, !.tx_ref = tx, !.code = code]]

\* new Order({...}): OrderSchema has no path tx_ref, so the document is built
\* without what the request gave
NewOrder(id, u, st) ==
    [_id |-> id, userId |-> u, status |-> st, tx_ref |-> Undefined]

\* Order.findOne({ tx_ref }): the _id of the first document that matches, or
\* NoSuchOrder. tx_ref is not a path of the schema: a mongoose that strips such
\* a path from the filter matches every document, one that does not sends the
\* filter as it is
FindOneByTxRef(tx) ==
    LET matching == IF strictQuery THEN orders ELSE {o \in orders : o.tx_ref = tx}
    IN  IF matching = {} THEN NoSuchOrder
        ELSE CHOOSE id \in {o._id : o \in matching} :
                \A o \in matching : id <= o._id

\* router.post('/') up to newOrder.save(): 400 without a tx_ref, 200 with the
\* order findOne returns
CreateOrderFind(r, u, tx, st) ==
    /\ OrderArrives(r)
    /\ orderReqs' =
            IF tx = Undefined THEN OrderDone(r, "create", u, NoSuchOrder, tx, 400)
            ELSE IF FindOneByTxRef(tx) # NoSuchOrder
            THEN OrderDone(r, "create", u, FindOneByTxRef(tx), tx, 200)
            ELSE [orderReqs EXCEPT ![r] =
                    [NoOrderRequest EXCEPT !.state = "saving", !.op = "create", !.u = u,
                                           !.tx_ref = tx, !.status = st]]
    /\ UNCHANGED <<orders, nextOrder, strictQuery, addressVars, groupChatVars>>

\* newOrder.save() with status: status || 'pending': 400 when the enum refuses
\* the status, else the insert and 201
CreateOrderSave(r) ==
    /\ orderReqs[r].state = "saving"
    /\ LET st == IF orderReqs[r].status = Undefined THEN "pending" ELSE orderReqs[r].status
       IN  IF st \notin OrderStatusEnum
           THEN /\ orderReqs' = [orderReqs EXCEPT ![r].state = "done", ![r].code = 400]
                /\ UNCHANGED <<orders, nextOrder>>
           ELSE /\ orders' = orders \cup {NewOrder(nextOrder, orderReqs[r].u, st)}
                /\ nextOrder' = nextOrder + 1
                /\ orderReqs' = [orderReqs EXCEPT ![r].state = "done", ![r].id = nextOrder,
                                                  ![r].code = 201]
    /\ UNCHANGED <<strictQuery, addressVars, groupChatVars>>

\* a filter without the owner
DeletableAnyOwner(o, u, id) == o._id = id /\ o.status \in DeletableStatuses

\* the filter { _id: orderId, userId: req.user.id, status: { $in: [...] } }
Deletable(o, u, id) == o._id = id /\ o.userId = u /\ o.status \in DeletableStatuses

\* router.delete('/:id'): Order.findOneAndDelete, and 200 when it found the order.
\* The id of the request is one the client can have been given: that of an order
\* that was created, or NoSuchOrder
DeleteOrderFind(r, u, id) ==
    /\ OrderArrives(r)
    /\ id < nextOrder
    /\ LET found == {o \in orders : Deletable(o, u, id)}
       IN  IF found # {}
           THEN /\ orders' = orders \ found
                /\ orderReqs' = OrderDone(r, "delete", u, id, Undefined, 200)
           ELSE /\ UNCHANGED orders
                /\ orderReqs' = [orderReqs EXCEPT ![r] =
                                    [NoOrderRequest EXCEPT !.state = "looking", !.op = "delete",
                                                           !.u = u, !.id = id]]
    /\ UNCHANGED <<nextOrder, strictQuery, addressVars, groupChatVars>>

\* Order.findById(orderId) of a delete that removed nothing: 403 for an order of
\* the user, else 404
DeleteOrderLook(r) ==
    /\ orderReqs[r].state = "looking"
    /\ orderReqs' =
            [orderReqs EXCEPT ![r].state = "done",
                              ![r].code =
                                IF \E o \in orders : o._id = orderReqs[r].id
                                                     /\ o.userId = orderReqs[r].u
                                THEN 403 ELSE 404]
    /\ UNCHANGED <<orders, nextOrder, strictQuery, addressVars, groupChatVars>>

\* ------------------------------------------------------------ specification
\* the server as it starts: no socket, no request, empty collections
Started ==
    /\ status = [c \in Conns |-> "new"]
    /\ rooms = [c \in Conns |-> {}]
    /\ pc = [c \in Conns |-> "idle"]
    /\ doc = [c \in Conns |-> NoDoc]
    /\ inbox = [c \in Conns |-> <<>>]
    /\ messages = <<>>
    /\ nextId = 1
    /\ now = 0
    /\ sends = 0
    /\ broadcasts = 0
    /\ groups = [g \in GroupIds |-> NoGroup]
    /\ last = NoExchange
    /\ prev = NoExchange
    /\ accounts = Users
    /\ toggles = [r \in Requests |-> NoToggle]
    /\ posts = [r \in PostRequests |-> NoDoc]
    /\ addresses = {}
    /\ nextAddr = 1
    /\ userDocs = [u \in Users |-> NoAddresses]
    /\ addrReqs = [r \in AddressRequests |-> NoAddressRequest]
    /\ orders = {}
    /\ nextOrder = 1
    /\ orderReqs = [r \in OrderRequests |-> NoOrderRequest]

\* strictQuery is read by routes/orders.js only: the specifications without order
\* requests run with one value of it
Init == Started /\ strictQuery = FALSE

\* the gateway: two connections, the two rooms, the payloads of SentPayloads and
\* one HTTP post
Next ==
    \/ \E c \in Conns : Connect(c)
    \/ \E c \in Conns, k \in GroupIds : JoinGroup(c, k)
    \/ \E c \in Conns : Disconnect(c)
    \/ \E c \in Conns, p \in SentPayloads : SendMessage(c, p)
    \/ PostMessage1("g1", "u3", <<" ", "a">>)

Spec == Init /\ [][Next]_vars

\* every payload and request body
NextPayload ==
    \/ \E c \in Conns : Connect(c)
    \/ \E c \in Conns : JoinGroup(c, "g1")
    \/ \E c \in Conns, p \in Payloads : SendMessage(c, p)
    \/ \E t \in BodyTexts : PostMessage1("g1", "u1", t)

SpecPayload == Init /\ [][NextPayload]_vars

\* the message store under concurrent appends, with the clock running
StorePayloads ==
    {[groupId |-> g, senderId |-> "u1", messageType |-> "text",
      messageText |-> <<"a">>, fileUrl |-> Undefined] : g \in GroupIds}

NextStore ==
    \/ \E c \in Conns : Connect(c)
    \/ \E c \in Conns, p \in StorePayloads : SendMessage(c, p)
    \/ \E r \in PostRequests, g \in GroupIds : PostStart1(r, g, "u3", <<"a">>)
    \/ \E r \in PostRequests : PostSave1(r)
    \/ Tick

SpecStore == Init /\ [][NextStore]_vars

\* group membership: both versions of the router serve requests
NextGroups ==
    \/ \E g \in GroupIds, u \in Users : CreateGroup(g, u)
    \/ \E g \in GroupIds, u \in Users : ToggleMembership1(g, u)
    \/ \E g \in GroupIds, u \in Users : ToggleMembership2(g, u)

SpecGroups == Init /\ [][NextGroups]_vars

\* the message history of a group and who may read it
NextHistory ==
    \/ \E g \in GroupIds, u \in Users : CreateGroup(g, u)
    \/ \E g \in GroupIds, u \in Users : ToggleMembership2(g, u)
    \/ \E g \in GroupIds : PostMessage1(g, "u2", <<"a">>)
    \/ \E g \in GroupIds, u \in Users : GetMessages1(g, u)
    \/ \E g \in GroupIds, u \in Users : GetMessages2(g, u)

SpecHistory == Init /\ [][NextHistory]_vars

\* toggle-membership requests on one group that overlap each other
NextToggles ==
    \/ CreateGroup("g1", "u1")
    \/ \E r \in Requests, u \in Users : ToggleFind2(r, "g1", u)
    \/ \E r \in Requests : ToggleSave2(r)

SpecToggles == Init /\ [][NextToggles]_vars

\* the ways a send fails: a blank text, a null text, a type the schema refuses,
\* the sender's account deleted meanwhile, and the model that is not there
FailurePayloads ==
    {[groupId |-> "g1", senderId |-> "u1", messageType |-> "text",
      messageText |-> <<"a">>, fileUrl |-> Undefined],
     [groupId |-> "g1", senderId |-> "u1", messageType |-> "text",
      messageText |-> <<" ">>, fileUrl |-> Undefined],
     [groupId |-> "g1", senderId |-> "u1", messageType |-> "text",
      messageText |-> NullText, fileUrl |-> Undefined],
     [groupId |-> "g1", senderId |-> "u1", messageType |-> "video",
      messageText |-> <<"a">>, fileUrl |-> "f1"]}

NextFailures ==
    \/ \E c \in Conns : Connect(c)
    \/ \E c \in Conns : JoinGroup(c, "g1")
    \/ \E c \in Conns, p \in FailurePayloads : SendMessage(c, p)
    \/ DeleteUser("u1")

SpecFailures == Init /\ [][NextFailures]_vars

\* every operation of the chat subsystem, on one group
NextLog ==
    \/ \E c \in Conns : Connect(c)
    \/ \E c \in Conns : JoinGroup(c, "g1")
    \/ \E c \in Conns : Disconnect(c)
    \/ \E c \in Conns, p \in StorePayloads : SendMessage(c, p)
    \/ PostMessage1("g1", "u2", <<"a">>)
    \/ CreateGroup("g1", "u1")
    \/ GetMessages2("g1", "u1")
    \/ ToggleMembership2("g1", "u2")

SpecLog == Init /\ [][NextLog]_vars

\* the real-time path for a member and for a user who is not one, and the
\* history of the group asked by the latter
OpenPayloads ==
    {[groupId |-> "g1", senderId |-> u, messageType |-> "text",
      messageText |-> <<"a">>, fileUrl |-> Undefined] : u \in {"u1", "u2"}}

NextOpen ==
    \/ CreateGroup("g1", "u1")
    \/ \E c \in Conns : Connect(c)
    \/ \E c \in Conns, k \in GroupIds : JoinGroup(c, k)
    \/ \E c \in Conns, p \in OpenPayloads : SendMessage(c, p)
    \/ GetMessages1("g1", "u2")
    \/ GetMessages2("g1", "u2")

SpecOpen == Init /\ [][NextOpen]_vars

\* joins with and without a group id, disconnects, and sends to both rooms
NextJoin ==
    \/ \E c \in Conns : Connect(c)
    \/ \E c \in Conns, k \in JoinPayloads : JoinGroup(c, k)
    \/ \E c \in Conns : Disconnect(c)
    \/ \E c \in Conns, p \in StorePayloads : SendMessage(c, p)

SpecJoin == Init /\ [][NextJoin]_vars

\* bad messages: no payload, no group id, a null text, an unknown type; and a
\* good one
BadPayloads ==
    {[groupId |-> Undefined, senderId |-> "u1", messageType |-> "text",
      messageText |-> <<"a">>, fileUrl |-> Undefined],
     [groupId |-> "g1", senderId |-> "u1", messageType |-> "text",
      messageText |-> NullText, fileUrl |-> Undefined],
     [groupId |-> "g1", senderId |-> "u1", messageType |-> "video",
      messageText |-> <<"a">>, fileUrl |-> "f1"],
     [groupId |-> "g1", senderId |-> "u1", messageType |-> "text",
      messageText |-> <<"a">>, fileUrl |-> Undefined]}

NextBad ==
    \/ \E c \in Conns : Connect(c)
    \/ \E c \in Conns, k \in GroupIds : JoinGroup(c, k)
    \/ \E c \in Conns, p \in BadPayloads : SendMessage(c, p)
    \/ \E c \in Conns : SendMessageNull(c)

SpecBad == Init /\ [][NextBad]_vars

\* the address requests of two users, which overlap each other; a request to
\* update or delete names an address that was created, or none
NextAddresses ==
    \/ \E r \in AddressRequests, u \in {"u1", "u2"}, flag \in DefaultFlags :
            PostAddressStart(r, u, flag)
    \/ \E r \in AddressRequests : PostAddressUnset(r)
    \/ \E r \in AddressRequests : PostAddressSave(r)
    \/ \E r \in AddressRequests : PostAddressPush(r)
    \/ \E r \in AddressRequests, u \in {"u1", "u2"}, id \in AddressIds, flag \in DefaultFlags :
            PutAddressUpdate(r, u, id, flag)
    \/ \E r \in AddressRequests : PutAddressUnset(r)
    \/ \E r \in AddressRequests, u \in {"u1", "u2"}, id \in AddressIds :
            DeleteAddressFind(r, u, id)
    \/ \E r \in AddressRequests : DeleteAddressRead(r)
    \/ \E r \in AddressRequests : DeleteAddressWrite(r)

SpecAddresses == Init /\ [][NextAddresses]_vars

\* the server with either mongoose installed
InitOrders == Started /\ strictQuery \in BOOLEAN

\* order requests that overlap each other: u1 creates orders, u1 and u2 ask to
\* delete them; a request to delete names an order that was created, or none
NextOrders ==
    \/ \E r \in OrderRequests, tx \in BodyTxRefs, st \in BodyStatuses :
            CreateOrderFind(r, "u1", tx, st)
    \/ \E r \in OrderRequests : CreateOrderSave(r)
    \/ \E r \in OrderRequests, u \in {"u1", "u2"}, id \in OrderIds :
            DeleteOrderFind(r, u, id)
    \/ \E r \in OrderRequests : DeleteOrderLook(r)

SpecOrders == InitOrders /\ [][NextOrders]_vars
\* ------------------------------------------------------------------ claims
SetOf(seq) == {seq[i] : i \in DOMAIN seq}
\* the newMessage events for message id in a client's inbox
CountIn(box, id) ==
    Cardinality({i \in DOMAIN box : box[i].event = "newMessage" /\ box[i].id = id})

\* the payloads that pass for valid: ids, a type of the enum and its content
ValidSend(p) ==
    /\ p.groupId # Undefined
    /\ p.senderId # Undefined
    /\ \/ /\ p.messageType = "text"
          /\ p.messageText \notin {UndefinedText, NullText}
          /\ Trim(p.messageText) # <<>>
       \/ /\ p.messageType \in {"image", "audio"}
          /\ p.fileUrl # Undefined

\* the handler of a send goes on to persist: its save is pending and nobody has
\* been sent anything
SendAccepted(c) == pc'[c] = "saving" /\ inbox' = inbox

\* C1: a valid sendMessage succeeds as far as it depends on the gateway: its save
\* starts. When a send handler reaches its broadcast, every open connection that has
\* joined the room of the message's group, the sender's included, receives one
\* newMessage event with the message's id, which it had not received before, and
\* every other connection receives nothing; no connection ever holds two newMessage
\* events with the same id.
C1_BroadcastToRoom ==
    /\ [][\A c \in Conns : (pc[c] = "idle" /\ sends' = sends + 1) =>
            \A p \in SentPayloads : (ValidSend(p) /\ SendMessage(c, p)) => SendAccepted(c)]_vars
    /\ [](\A s \in Conns : \A id \in 1..nextId : CountIn(inbox[s], id) <= 1)
    /\ [][\A c \in Conns :
            (pc[c] = "finding" /\ pc'[c] = "idle" /\ broadcasts' = broadcasts + 1) =>
                \A s \in Conns :
                    IF status[s] = "open" /\ doc[c].groupId \in rooms[s]
                    THEN /\ Len(inbox'[s]) = Len(inbox[s]) + 1
                         /\ SubSeq(inbox'[s], 1, Len(inbox[s])) = inbox[s]
                         /\ inbox'[s][Len(inbox'[s])].event = "newMessage"
                         /\ inbox'[s][Len(inbox'[s])].id = doc[c]._id
                         /\ CountIn(inbox[s], doc[c]._id) = 0
                    ELSE inbox'[s] = inbox[s]]_vars

\* the payloads C4 calls invalid
FailsValidation(p) ==
    \/ p.groupId = Undefined
    \/ p.senderId = Undefined
    \/ /\ p.messageType = "text"
       /\ (p.messageText \in {UndefinedText, NullText} \/ Trim(p.messageText) = <<>>)
    \/ /\ p.messageType \in {"image", "audio"}
       /\ p.fileUrl = Undefined

\* C4: a sendMessage whose payload fails validation leaves the message store as it
\* was, starts no save, broadcasts nothing, changes no other connection's inbox and
\* adds one messageError to the sender's inbox.
C4_InvalidRejected ==
    [][\A c \in Conns : (pc[c] = "idle" /\ sends' = sends + 1) => \A p \in Payloads :
        (FailsValidation(p) /\ SendMessage(c, p)) =>
            /\ messages' = messages
            /\ pc'[c] = "idle"
            /\ doc' = doc
            /\ broadcasts' = broadcasts
            /\ \A s \in Conns \ {c} : inbox'[s] = inbox[s]
            /\ Len(inbox'[c]) = Len(inbox[c]) + 1
            /\ SubSeq(inbox'[c], 1, Len(inbox[c])) = inbox[c]
            /\ inbox'[c][Len(inbox'[c])].event = "messageError"]_vars

\* c1, in the room of g1, was refused an empty text and an image without a URL, and
\* the store is empty
C4_Witness ==
    /\ messages = <<>>
    /\ "g1" \in rooms["c1"]
    /\ inbox["c1"] = <<MessageError(ErrEmptyText), MessageError(ErrImageUrl)>>

\* C5: a valid sendMessage starts the save of a document of the payload's group,
\* sender and type, with the trimmed text and a null fileUrl for a text message and
\* a null text and the payload's fileUrl for an image or audio message; the
\* document does not change while the save is pending and is what enters the store.
C5_PersistedContent ==
    /\ [][\A c \in Conns : (pc[c] = "idle" /\ sends' = sends + 1) => \A p \in Payloads :
            (ValidSend(p) /\ SendMessage(c, p)) =>
                /\ pc'[c] = "saving"
                /\ doc'[c].groupId = p.groupId
                /\ doc'[c].senderId = p.senderId
                /\ doc'[c].messageType = p.messageType
                /\ p.messageType = "text" =>
                        /\ doc'[c].messageText = Trim(p.messageText)
                        /\ doc'[c].fileUrl = Null
                /\ p.messageType \in {"image", "audio"} =>
                        /\ doc'[c].messageText = NullText
                        /\ doc'[c].fileUrl = p.fileUrl]_vars
    /\ [][\A c \in Conns :
            /\ (pc[c] = "saving" /\ pc'[c] = "saving") => doc'[c] = doc[c]
            /\ (pc[c] = "saving" /\ pc'[c] = "finding") =>
                    messages' = Append(messages, doc[c])]_vars

\* C6: every stored message has exactly one of messageText and fileUrl, the one its
\* type asks for: a text message a non-empty text and no fileUrl, an image or audio
\* message a fileUrl and no text.
C6_ContentInvariant ==
    \A i \in DOMAIN messages :
        LET m == messages[i]
        IN  /\ m.messageType \in MessageTypeEnum
            /\ m.messageType = "text" =>
                    /\ m.messageText \notin {UndefinedText, NullText, <<>>}
                    /\ m.fileUrl \in {Undefined, Null}
            /\ m.messageType \in {"image", "audio"} =>
                    /\ m.fileUrl \notin {Undefined, Null}
                    /\ m.messageText \in {UndefinedText, NullText}

\* the messages were inserted in the order they were created
AppendedInTurn ==
    \A i, j \in DOMAIN messages : i < j => messages[i]._id < messages[j]._id

\* C7: the history of a group is in non-decreasing sentAt order and holds the
\* group's stored messages, each once and no other; when the messages were appended
\* one after another, the history lists the group's messages in the order they
\* were appended and sentAt does not decrease along the store.
C7_HistoryOrder ==
    \A g \in GroupIds :
        LET h == History(g)
            stored == FindByGroup(g)
        IN  /\ \A i, j \in DOMAIN h : i < j => h[i].sentAt <= h[j].sentAt
            /\ Len(h) = Len(stored)
            /\ {h[i]._id : i \in DOMAIN h} = {stored[i]._id : i \in DOMAIN stored}
            /\ \A i, j \in DOMAIN h : i # j => h[i]._id # h[j]._id
            /\ \A i \in DOMAIN h : h[i].groupId = g
            /\ AppendedInTurn =>
                    /\ \A i \in DOMAIN h : h[i]._id = stored[i]._id
                    /\ \A i, j \in DOMAIN messages :
                            i < j => messages[i].sentAt <= messages[j].sentAt

\* two messages of g1 appended in turn at different times
C7_Witness ==
    /\ AppendedInTurn
    /\ Len(FindByGroup("g1")) = 2
    /\ FindByGroup("g1")[1].sentAt < FindByGroup("g1")[2].sentAt
    /\ Len(History("g1")) = 2
\* C2: the creator of every group is one of its members.
C2_CreatorIsMember ==
    \A g \in GroupIds :
        groups[g].exists => groups[g].createdBy \in SetOf(groups[g].members)

\* C3: GET /:id/messages answers 404 when the group does not exist, 403 when it
\* exists and the requester is not a member, and the history of the group, with
\* 200, exactly when the requester is a member.
C3_HistoryGate ==
    last.op = "getMessages" =>
        LET exists == groups[last.g].exists
            member == last.u \in SetOf(groups[last.g].members)
        IN  /\ ~exists => last.status = 404
            /\ (exists /\ ~member) => last.status = 403
            /\ (exists /\ member) => (last.status = 200 /\ last.body = History(last.g))
            /\ last.status = 200 => (exists /\ member)

\* C8: a toggle request of a user who is not the creator of the group is answered
\* with 200 and the new membership: a member is removed and told isMember = false,
\* another user is added and told isMember = true, and no other user's membership
\* changes.
C8_ToggleFlips ==
    (last.op = "toggle" /\ groups[last.g].exists /\ last.u # groups[last.g].createdBy) =>
        LET was == last.u \in SetOf(last.before)
            is == last.u \in SetOf(groups[last.g].members)
        IN  /\ last.status = 200
            /\ is = ~was
            /\ last.body = <<[isMember |-> is]>>
            /\ \A v \in Users \ {last.u} :
                    (v \in SetOf(last.before)) = (v \in SetOf(groups[last.g].members))

\* a member who is not the creator has left a group that keeps another such member
C8_Witness ==
    /\ last.op = "toggle"
    /\ groups[last.g].exists
    /\ last.u # groups[last.g].createdBy
    /\ last.body = <<[isMember |-> FALSE]>>
    /\ \E v \in Users \ {last.u, groups[last.g].createdBy} :
            v \in SetOf(groups[last.g].members)

\* C9: after two toggle requests in a row by the same user, who is not the creator,
\* on the same group, the group has the members it had before the first.
C9_ToggleTwice ==
    (/\ prev.op = "toggle" /\ last.op = "toggle"
     /\ prev.g = last.g /\ prev.u = last.u
     /\ groups[last.g].exists /\ last.u # groups[last.g].createdBy) =>
        SetOf(groups[last.g].members) = SetOf(prev.before)

\* a user who is not the creator has joined and then left a group, and another
\* one has left and joined again
C9_Witness ==
    /\ prev.op = "toggle" /\ last.op = "toggle"
    /\ prev.g = last.g /\ prev.u = last.u
    /\ groups[last.g].exists /\ last.u # groups[last.g].createdBy
    /\ prev.body = <<[isMember |-> FALSE]>>
    /\ last.body = <<[isMember |-> TRUE]>>
    /\ Len(groups[last.g].members) = 3

\* C10: a toggle request of the creator, who is a member, is refused with the error
\* that the creator cannot leave, and the members are as before.
C10_CreatorRefused ==
    (/\ last.op = "toggle" /\ groups[last.g].exists
     /\ last.u = groups[last.g].createdBy
     /\ last.u \in SetOf(last.before)) =>
        /\ last.status \in 400..499
        /\ last.body = <<[error |-> "The creator cannot leave the group."]>>
        /\ groups[last.g].members = last.before

\* the toggle requests that have been saved and answered
Answered == {r \in Requests : toggles[r].state = "done"}

\* the members of a group after one toggle request served alone
ToggledAlone(members, createdBy, u) ==
    IF u \in SetOf(members)
    THEN IF u = createdBy THEN members ELSE Pull(members, u)
    ELSE Push(members, u)

\* the members of group g after the requests of order one after another, from
\* the members the group was created with
RECURSIVE InTurn(_, _)
InTurn(order, g) ==
    IF order = <<>> THEN <<groups[g].createdBy>>
    ELSE LET r == order[Len(order)]
             before == InTurn(SubSeq(order, 1, Len(order) - 1), g)
         IN  IF toggles[r].g = g
             THEN ToggledAlone(before, groups[g].createdBy, toggles[r].u)
             ELSE before

\* the orders in which the requests of set S can be served
Orders(S) ==
    {o \in [1..Cardinality(S) -> S] : \A i, j \in 1..Cardinality(S) : i # j => o[i] # o[j]}

\* C11: toggle requests on a group that overlap leave no user twice in members,
\* and when every request that was made has been answered, the members are those
\* that serving the requests one after another in some order leaves.
C11_ToggleAtomic ==
    \A g \in GroupIds : groups[g].exists =>
        /\ \A i, j \in DOMAIN groups[g].members :
                i # j => groups[g].members[i] # groups[g].members[j]
        /\ (\A r \in Requests : toggles[r].state # "saving") =>
                \E o \in Orders(Answered) : SetOf(InTurn(o, g)) = SetOf(groups[g].members)

\* the ids of the stored messages
StoredIds == {messages[i]._id : i \in DOMAIN messages}

\* C12: a send that passes validation goes on to persist: its save starts, of a
\* valid document that is not stored yet. Every newMessage event a connection has
\* received is for a message that is in the store; a handler validates, then
\* persists, then reads the record again, then broadcasts: its document is valid
\* and not stored while the save is pending, stored while the read is pending, and
\* a broadcast is made only by a handler whose read was pending, for a message
\* that is stored.
C12_PersistBeforeBroadcast ==
    /\ [][\A c \in Conns : (pc[c] = "idle" /\ sends' = sends + 1) =>
            \A p \in SentPayloads : (ValidSend(p) /\ SendMessage(c, p)) =>
                /\ pc'[c] = "saving"
                /\ SchemaValid(doc'[c])
                /\ doc'[c]._id \notin StoredIds]_vars
    /\ [](\A s \in Conns : \A i \in DOMAIN inbox[s] :
            inbox[s][i].event = "newMessage" => inbox[s][i].id \in StoredIds)
    /\ [](\A c \in Conns :
            /\ pc[c] = "saving" => (SchemaValid(doc[c]) /\ doc[c]._id \notin StoredIds)
            /\ pc[c] = "finding" => doc[c] \in SetOf(messages))
    /\ [][/\ \A c \in Conns : pc'[c] # pc[c] =>
                <<pc[c], pc'[c]>> \in {<<"idle", "saving">>, <<"saving", "finding">>,
                                       <<"saving", "idle">>, <<"finding", "idle">>}
          /\ (\E s \in Conns : \E i \in DOMAIN inbox'[s] :
                    i > Len(inbox[s]) /\ inbox'[s][i].event = "newMessage") =>
                \E c \in Conns : /\ pc[c] = "finding" /\ pc'[c] = "idle"
                                  /\ doc[c] \in SetOf(messages)
                                  /\ messages' = messages]_vars

\* only the inbox of connection c has changed, by one messageError at its end
OnlyErrorTo(c) ==
    /\ \A s \in Conns \ {c} : inbox'[s] = inbox[s]
    /\ Len(inbox'[c]) = Len(inbox[c]) + 1
    /\ SubSeq(inbox'[c], 1, Len(inbox[c])) = inbox[c]
    /\ inbox'[c][Len(inbox'[c])].event = "messageError"

\* C13: a sendMessage that fails adds one messageError to the inbox of the
\* connection that sent it and nothing to any other inbox, and the messageError of
\* a payload that fails validation is never the one a failure of the server is
\* reported with.
C13_ErrorKinds ==
    [][\A c \in Conns : (pc[c] = "idle" /\ sends' = sends + 1) =>
        \A p \in FailurePayloads : SendMessage(c, p) =>
            /\ inbox' # inbox => OnlyErrorTo(c)
            /\ FailsValidation(p) =>
                    /\ OnlyErrorTo(c)
                    /\ inbox'[c][Len(inbox'[c])] # MessageError(ErrServer)]_vars

\* C14: a valid send is persisted whether its sender has an account or not: its
\* save starts and what is saved is read again. When that read returns and the
\* sender of the message has no account any more, the sending connection gets
\* one messageError, no connection gets a newMessage, and the message stays in
\* the store.
C14_EnrichmentFailure ==
    [][\A c \in Conns :
        /\ (pc[c] = "idle" /\ sends' = sends + 1) => \A p \in FailurePayloads :
                (ValidSend(p) /\ p.senderId \notin accounts /\ SendMessage(c, p)) =>
                    (pc'[c] = "saving" /\ doc'[c].senderId = p.senderId)
        /\ (/\ pc[c] = "finding" /\ pc'[c] = "idle"
            /\ status[c] = "open"
            /\ doc[c].senderId \notin accounts) =>
                /\ OnlyErrorTo(c)
                /\ broadcasts' = broadcasts
                /\ doc[c] \in SetOf(messages')]_vars

\* what a failed save leaves: the store and the broadcasts as they were, one
\* messageError for the sender if its socket is open, nothing for anyone else
PersistFailedFor(c) ==
    /\ messages' = messages
    /\ broadcasts' = broadcasts
    /\ IF status[c] = "open" THEN OnlyErrorTo(c) ELSE inbox' = inbox

NoErrorSent ==
    \A s \in Conns :
        /\ Len(inbox'[s]) >= Len(inbox[s])
        /\ SubSeq(inbox'[s], 1, Len(inbox[s])) = inbox[s]
        /\ \A i \in DOMAIN inbox'[s] : i > Len(inbox[s]) => inbox'[s][i].event = "newMessage"

C17_AppendOnly ==
    [][/\ Len(messages') >= Len(messages)
       /\ SubSeq(messages', 1, Len(messages)) = messages]_vars

\* with a message stored, a send was answered, the history was read and a
\* membership toggled, and the connection that sent has disconnected
C17_Witness ==
    /\ Len(messages) = 1
    /\ prev.op = "getMessages" /\ prev.status = 200 /\ Len(prev.body) = 1
    /\ last.op = "toggle" /\ last.status = 200
    /\ \E c \in Conns : status[c] = "closed" /\ inbox[c] # <<>>

\* C18: an open connection can join the room of any group id, whoever the members
\* of the group are; a valid send is saved with the sender the payload names,
\* member or not, and its broadcast reaches every open connection in the room;
\* the history of an existing group is refused with 403 to a user who is not a
\* member.
C18_RealTimeNotGated ==
    /\ [](\A c \in Conns, k \in GroupIds : status[c] = "open" => ENABLED JoinGroup(c, k))
    /\ [](( /\ last.op = "getMessages" /\ groups[last.g].exists
             /\ last.u \notin SetOf(groups[last.g].members)) => last.status = 403)
    /\ [][\A c \in Conns :
            /\ (pc[c] = "idle" /\ sends' = sends + 1) => \A p \in OpenPayloads :
                    SendMessage(c, p) =>
                        /\ pc'[c] = "saving"
                        /\ doc'[c].senderId = p.senderId /\ doc'[c].groupId = p.groupId
            /\ (pc[c] = "saving" /\ pc'[c] = "finding") => doc[c] \in SetOf(messages')
            /\ (pc[c] = "finding" /\ pc'[c] = "idle") =>
                    \A s \in Conns : (status[s] = "open" /\ doc[c].groupId \in rooms[s]) =>
                        /\ Len(inbox'[s]) = Len(inbox[s]) + 1
                        /\ inbox'[s][Len(inbox'[s])].event = "newMessage"
                        /\ inbox'[s][Len(inbox'[s])].data.sender._id = doc[c].senderId]_vars

\* C19: a POST /:id/messages leaves every inbox, every connection's rooms and the
\* count of broadcasts as they were; when it answers 201 it has appended one text
\* message of the group and the user of the request to the store, and its answer
\* is that message with the sender populated.
C19_PostDoesNotBroadcast ==
    [][(nextId' = nextId + 1 /\ pc' = pc) =>
        \A g \in GroupIds, u \in Users, t \in BodyTexts : PostMessage1(g, u, t) =>
            /\ inbox' = inbox
            /\ rooms' = rooms
            /\ broadcasts' = broadcasts
            /\ last'.status = 201 =>
                    /\ Len(messages') = Len(messages) + 1
                    /\ SubSeq(messages', 1, Len(messages)) = messages
                    /\ messages'[Len(messages')].messageType = "text"
                    /\ messages'[Len(messages')].groupId = g
                    /\ messages'[Len(messages')].senderId = u
                    /\ last'.body = <<Populate(messages'[Len(messages')])>>]_vars

\* both connections are in the room of g1 and open; a message posted over HTTP is
\* in the history of g1 and no connection has received a newMessage for it
C19_Witness ==
    /\ \A c \in Conns : status[c] = "open" /\ "g1" \in rooms[c]
    /\ last.op = "postMessage" /\ last.status = 201
    /\ \E i \in DOMAIN History("g1") :
            /\ <<History("g1")[i]>> = last.body
            /\ \A c \in Conns : CountIn(inbox[c], History("g1")[i]._id) = 0

\* C20: the step that closes a connection empties its rooms and leaves the
\* message store, the groups and every inbox as they were; a closed connection
\* is in no room, stays closed and receives nothing more.
C20_Disconnect ==
    /\ [](\A c \in Conns : status[c] = "closed" => rooms[c] = {})
    /\ [][\A c \in Conns :
            /\ (status[c] = "open" /\ status'[c] = "closed") =>
                    /\ rooms'[c] = {}
                    /\ \A s \in Conns \ {c} : rooms'[s] = rooms[s]
                    /\ messages' = messages
                    /\ groups' = groups
                    /\ inbox' = inbox
            /\ status[c] = "closed" =>
                    (inbox'[c] = inbox[c] /\ status'[c] = "closed")]_vars

\* c1 was answered while it was open and has disconnected: it is in no room; c2
\* is open and still in the rooms of g1 and g2, and a message is in the store
C20_Witness ==
    /\ status["c1"] = "closed" /\ rooms["c1"] = {} /\ inbox["c1"] # <<>>
    /\ status["c2"] = "open" /\ rooms["c2"] = {"g1", "g2"}
    /\ Len(messages) = 1

\* C21: a send that passes validation has its persist pending, during which its
\* connection can disconnect. A disconnect leaves the store and the pending handlers as they are; the
\* pending save of a closed connection still appends its message, its broadcast
\* still reaches every open connection in the room, and the closed connection's
\* own inbox stays as it is, whether the handler ends in a broadcast or an error.
C21_DisconnectMidSend ==
    [][\A c \in Conns :
        /\ (pc[c] = "idle" /\ sends' = sends + 1) => \A p \in SentPayloads :
                (ValidSend(p) /\ SendMessage(c, p)) =>
                    (pc'[c] \in InFlight /\ status'[c] = "open")
        /\ (status[c] = "open" /\ status'[c] = "closed") =>
                (messages' = messages /\ pc' = pc /\ doc' = doc)
        /\ (status[c] = "closed" /\ pc[c] = "saving" /\ pc'[c] = "finding") =>
                messages' = Append(messages, doc[c])
        /\ (status[c] = "closed" /\ pc[c] \in InFlight /\ pc'[c] = "idle") =>
                /\ inbox'[c] = inbox[c]
                /\ messages' = messages
        /\ (status[c] = "closed" /\ pc[c] = "finding" /\ pc'[c] = "idle"
                /\ FindResolved(c)) =>
                \A s \in Conns : (status[s] = "open" /\ doc[c].groupId \in rooms[s]) =>
                    /\ Len(inbox'[s]) = Len(inbox[s]) + 1
                    /\ inbox'[s][Len(inbox'[s])] = NewMessageEvent(Populate(doc[c]))]_vars

\* C22: a joinGroup event without a group id changes no connection's rooms and
\* no inbox.
C22_MalformedJoinIgnored ==
    [][\A c \in Conns : JoinGroup(c, Undefined) => (rooms' = rooms /\ inbox' = inbox)]_vars

\* C23: where no client disconnects, no connection is ever closed; a sendMessage,
\* whatever its payload, leaves every connection's state and rooms and every
\* pending handler as they were; an open connection can always join a room, and
\* send again once its handler has returned.
C23_NeverFatal ==
    /\ [](\A c \in Conns : status[c] # "closed")
    /\ [](\A c \in Conns : status[c] = "open" =>
            /\ ENABLED JoinGroup(c, "g1")
            /\ (pc[c] = "idle" /\ sends < MaxSends) =>
                    \A p \in BadPayloads : ENABLED SendMessage(c, p))
    /\ [][sends' = sends + 1 =>
            /\ status' = status
            /\ rooms' = rooms
            /\ \A c \in Conns : pc[c] \in InFlight => (pc'[c] = pc[c] /\ doc'[c] = doc[c])]_vars

\* two bad messages were answered, one of them to c1; c1 and c2 are open, c1 has
\* joined both rooms since, and c2 has sent and been answered
C23_Witness ==
    /\ status["c1"] = "open" /\ status["c2"] = "open"
    /\ sends = 2
    /\ inbox["c1"] = <<MessageError(ErrServer)>>
    /\ inbox["c2"] # <<>>
    /\ rooms["c1"] = {"g1", "g2"}

\* the connections whose handler is at one of the places of set at
Pending(at) == {c \in Conns : pc[c] \in at}

\* C24: with every send valid and the database answering, no two stored messages
\* have the same id; every send whose save has resolved is in the store once and
\* every send whose handler has returned was broadcast once; a step of one
\* handler changes neither the other handler nor a stored message, and no inbox
\* holds a message twice.
C24_ConcurrentSends ==
    /\ [](\A i, j \in DOMAIN messages : i # j => messages[i]._id # messages[j]._id)
    /\ [](Len(messages) = sends - Cardinality(Pending({"saving"})))
    /\ [](broadcasts = sends - Cardinality(Pending(InFlight)))
    /\ [](\A s \in Conns : \A i, j \in DOMAIN inbox[s] : i # j => inbox[s][i] # inbox[s][j])
    /\ [][\A c \in Conns : (pc[c] \in InFlight /\ pc'[c] # pc[c]) =>
            /\ \A d \in Conns \ {c} : pc'[d] = pc[d] /\ doc'[d] = doc[d]
            /\ SubSeq(messages', 1, Len(messages)) = messages
            /\ pc[c] = "saving" => messages' = Append(messages, doc[c])
            /\ pc[c] = "finding" => messages' = messages]_vars

\* C25: a sendMessage with a valid payload whose sender has an account adds no
\* messageError to the inbox of the connection that sent it, and its handler goes
\* on towards the broadcast.
C25_ValidSendDelivered ==
    [][\A c \in Conns : (pc[c] = "idle" /\ sends' = sends + 1) =>
        \A p \in SentPayloads :
            (ValidSend(p) /\ p.senderId \in accounts /\ SendMessage(c, p)) =>
                /\ \A i \in DOMAIN inbox'[c] :
                        i > Len(inbox[c]) => inbox'[c][i].event # "messageError"
                /\ pc'[c] \in InFlight]_vars

\* C26: a connection that is not open is in no room and a new connection opens in
\* no room; a connection is enrolled in a room only while it is open and by a
\* step that changes the rooms of no other connection; and a newMessage reaches
\* only connections that are in the room of its group.
C26_EphemeralRooms ==
    /\ [](\A c \in Conns : status[c] # "open" => rooms[c] = {})
    /\ [][\A c \in Conns :
            /\ (status[c] = "new" /\ status'[c] = "open") => rooms'[c] = {}
            /\ \A k \in GroupIds : (k \in rooms'[c] /\ k \notin rooms[c]) =>
                    /\ status[c] = "open"
                    /\ rooms' = [rooms EXCEPT ![c] = @ \cup {k}]
            /\ \A i \in DOMAIN inbox'[c] :
                    (i > Len(inbox[c]) /\ inbox'[c][i].event = "newMessage") =>
                        inbox'[c][i].data.groupId \in rooms[c]]_vars

\* c1, which was answered while it was open, has disconnected and is in no room;
\* c2, open, is in the room of g2 and in no other
C26_Witness ==
    /\ status["c1"] = "closed" /\ rooms["c1"] = {} /\ inbox["c1"] # <<>>
    /\ status["c2"] = "open" /\ rooms["c2"] = {"g2"}

\* no address request is between its database calls
AddressesQuiet == \A r \in AddressRequests : addrReqs[r].state \in {"none", "done"}

\* the addresses of user u that are the default
Defaults(u) == {a \in addresses : a.userId = u /\ a.isDefault}

\* C27: when every address request has been answered, a user has at most one
\* address with isDefault true; and a step changes isDefault only on addresses
\* of the user whose request it serves.
C27_OneDefault ==
    /\ [](AddressesQuiet => \A u \in Users : Cardinality(Defaults(u)) <= 1)
    /\ [][\A a \in addresses, b \in addresses' :
            (a._id = b._id /\ a.isDefault # b.isDefault) =>
                \E r \in AddressRequests :
                    addrReqs'[r] # addrReqs[r] /\ addrReqs'[r].u = a.userId]_vars

\* the orders in the store that were created by a request that gave tx_ref tx
CreatedFor(tx) ==
    {o \in orders : \E r \in OrderRequests :
        /\ orderReqs[r].op = "create" /\ orderReqs[r].code = 201
        /\ orderReqs[r].tx_ref = tx /\ orderReqs[r].id = o._id}

\* C28: the store never holds two orders created for the same tx_ref; and a
\* request to create an order whose tx_ref is that of an order in the store is
\* answered 200 with that order and leaves the store as it was.
C28_IdempotentCreate ==
    /\ [](\A tx \in TxRefs : Cardinality(CreatedFor(tx)) <= 1)
    /\ [][\A r \in OrderRequests :
            (/\ orderReqs[r].state = "none" /\ orderReqs'[r].op = "create"
             /\ orderReqs'[r].tx_ref \in TxRefs
             /\ CreatedFor(orderReqs'[r].tx_ref) # {}) =>
                /\ orderReqs'[r].state = "done" /\ orderReqs'[r].code = 200
                /\ \E o \in CreatedFor(orderReqs'[r].tx_ref) : orderReqs'[r].id = o._id
                /\ orders' = orders]_vars

\* the ids of the Address documents of user u
AddressesOf(u) == {a._id : a \in {b \in addresses : b.userId = u}}

\* C29: when every address request has been answered, the addresses array of a
\* user holds the ids of the Address documents of that user, each once, and no
\* other id.
C29_AddressList ==
    AddressesQuiet =>
        \A u \in Users :
            /\ SetOf(userDocs[u].addresses) = AddressesOf(u)
            /\ Len(userDocs[u].addresses) = Cardinality(AddressesOf(u))

\* C30: a step of a request of user u to delete order id removes an order only
\* when the order is u's and pending or awaiting payment, removes that order and
\* no other, and answers 200 then and only then; it answers 403 only for an order
\* of u that is in the store with another status and 404 only when no order of u
\* has the id; and no other step removes an order.
C30_DeleteOrder ==
    [][/\ \A r \in OrderRequests :
            (orderReqs'[r] # orderReqs[r] /\ orderReqs'[r].op = "delete") =>
                LET u == orderReqs'[r].u
                    id == orderReqs'[r].id
                    mine == {o \in orders : o._id = id /\ o.userId = u}
                IN  /\ orders' # orders =>
                            \E o \in mine : /\ o.status \in {"pending", "awaiting_payment"}
                                            /\ orders' = orders \ {o}
                    /\ orderReqs'[r].code = 200 <=> orders' # orders
                    /\ orderReqs'[r].code \in {0, 200, 403, 404}
                    /\ orderReqs'[r].code = 403 =>
                            /\ mine # {}
                            /\ \A o \in mine : o.status \notin {"pending", "awaiting_payment"}
                    /\ orderReqs'[r].code = 404 => mine = {}
       /\ (\E o \in orders : o \notin orders') =>
            \E r \in OrderRequests :
                orderReqs'[r] # orderReqs[r] /\ orderReqs'[r].op = "delete"]_vars

\* u1 was refused, with 403, the deletion of an order of theirs that is shipped and
\* still in the store, and a pending order of u1 was deleted at their request
C30_Witness ==
    \E ra, rc \in OrderRequests :
        /\ orderReqs[ra].op = "delete" /\ orderReqs[ra].code = 403 /\ orderReqs[ra].u = "u1"
        /\ \E o \in orders : o._id = orderReqs[ra].id /\ o.status = "shipped"
        /\ orderReqs[rc].op = "delete" /\ orderReqs[rc].code = 200 /\ orderReqs[rc].u = "u1"
        /\ \A o \in orders : o._id # orderReqs[rc].id
====
